---- MODULE Spec2Model ----
(***************************************************************************)
(* Board state engine of @incoder/kanban: the card collection and its      *)
(* move resolver (useKanbanState), the drag state machine (useKanbanDrag)  *)
(* and the wiring of both in KanbanBoard.vue / KanbanColumn.vue.           *)
(*                                                                         *)
(* Identifiers (KanbanId) are modelled as positive integers.  The two      *)
(* absent values of JavaScript are kept apart, because the code compares   *)
(* them with === : Undefined (a missing swimlaneId) and Null.              *)
(***************************************************************************)
EXTENDS Integers, Sequences, FiniteSets, TLC

\* ---------------------------------------------------------------- bounds
NumCards == 3
BoardCards == 2
NumColumns == 2
NumSwimlanes == 1
NegIndexes == 1

\* ------------------------------------------------------ absent JS values
Undefined == 0
Null == 0 - 1

\* The wipLimit of a column without the field (limits are numbers >= 0)
NoWipLimit == 0 - 1

CardIds == 1..NumCards
ColumnIds == 1..NumColumns
SwimlaneIds == 1..NumSwimlanes
SwimlaneValues == {Undefined} \cup SwimlaneIds
ToIndexes == (0 - NegIndexes)..NumCards

VARIABLES cards, columns, swimlanes, options, dragState, lastCall, emitted, gesture, ends, prevCards, prevColumns, prevDrag, rt, view

vars == <<cards, columns, swimlanes, options, dragState, lastCall, emitted, gesture, ends, prevCards, prevColumns, prevDrag, rt, view>>

\* ------------------------------------------------------- sequence helpers
Min(a, b) == IF a < b THEN a ELSE b
Max(a, b) == IF a > b THEN a ELSE b

\* Mutant: an absent id gives the last position (what splice(-1, 1) takes)
findIndex_lastWhenAbsent(cs, id) ==
  IF \E i \in 1..Len(cs) : cs[i].id = id
  THEN CHOOSE i \in 1..Len(cs) : cs[i].id = id /\ \A j \in 1..(i - 1) : cs[j].id # id
  ELSE Len(cs)

\* Array.prototype.findIndex on the id field, 1-based; 0 when absent (-1 in JS)
findIndex(cs, id) ==
  IF \E i \in 1..Len(cs) : cs[i].id = id
  THEN CHOOSE i \in 1..Len(cs) : cs[i].id = id /\ \A j \in 1..(i - 1) : cs[j].id # id
  ELSE 0

\* cards.splice(index, 1) for a 1-based index
RemoveAt(cs, i) == [k \in 1..(Len(cs) - 1) |-> IF k < i THEN cs[k] ELSE cs[k + 1]]

\* Mutant: the element is put after the one at the index
SpliceStart_afterIndex(len, start) ==
  IF start < 0 THEN Max(len + start, 0) ELSE Min(start + 1, len)

\* Start position of Array.prototype.splice(start, 0, x): a negative start
\* counts from the end, and the result is clamped to [0, length]
SpliceStart(len, start) ==
  IF start < 0 THEN Max(len + start, 0) ELSE Min(start, len)

\* arr.splice(start, 0, x)
SpliceInsert(cs, start, x) ==
  LET p == SpliceStart(Len(cs), start)
  IN  [k \in 1..(Len(cs) + 1) |->
         IF k <= p THEN cs[k] ELSE IF k = p + 1 THEN x ELSE cs[k - 1]]

\* Insert x into a sequence sorted by order, after every element that does
\* not compare greater (Array.prototype.sort is stable)
RECURSIVE InsertByOrder(_, _)
InsertByOrder(sorted, x) ==
  IF sorted = <<>> THEN <<x>>
  ELSE IF sorted[Len(sorted)].order <= x.order THEN Append(sorted, x)
  ELSE Append(InsertByOrder(SubSeq(sorted, 1, Len(sorted) - 1), x), sorted[Len(sorted)])

\* arr.sort((a, b) => a.order - b.order)
RECURSIVE SortByOrder(_)
SortByOrder(cs) ==
  IF cs = <<>> THEN <<>>
  ELSE InsertByOrder(SortByOrder(SubSeq(cs, 1, Len(cs) - 1)), cs[Len(cs)])

\* Mutant: the numbering starts at 1
Renumber_fromOne(cs) == [k \in 1..Len(cs) |-> [cs[k] EXCEPT !.order = k]]

\* arr.forEach((card, idx) => { card.order = idx })
Renumber(cs) == [k \in 1..Len(cs) |-> [cs[k] EXCEPT !.order = k - 1]]

\* ------------------------------------------------------------ useKanbanState
\* const normalizeId = (id) => id ?? null
normalizeId(id) == IF id = Undefined THEN Null ELSE id

\* Mutant: the filtered cards are returned in the sequence of the array
getCardsForColumn_unsorted(cs, columnId, swimlaneId) ==
  SelectSeq(cs, LAMBDA c :
    c.columnId = columnId /\ (swimlaneId # Undefined => c.swimlaneId = swimlaneId))

\* getCardsForColumn(columnId, swimlaneId?)
getCardsForColumn(cs, columnId, swimlaneId) ==
  SortByOrder(SelectSeq(cs, LAMBDA c :
    c.columnId = columnId /\ (swimlaneId # Undefined => c.swimlaneId = swimlaneId)))

\* getCardCount(columnId, swimlaneId?)
getCardCount(cs, columnId, swimlaneId) == Len(getCardsForColumn(cs, columnId, swimlaneId))

\* isColumnOverLimit(columnId); !column.wipLimit is true for a column without
\* the field and for wipLimit 0
isColumnOverLimit(cols, cs, columnId) ==
  LET k == findIndex(cols, columnId)
  IN  IF k = 0 THEN FALSE
      ELSE IF cols[k].wipLimit = NoWipLimit \/ cols[k].wipLimit = 0 THEN FALSE
      ELSE getCardCount(cs, columnId, Undefined) > cols[k].wipLimit

\* getCardById(cardId): the card, or Undefined
getCardById(cs, cardId) ==
  IF findIndex(cs, cardId) = 0 THEN Undefined ELSE cs[findIndex(cs, cardId)]

\* The CardMoveEvent record (event.card is carried as its id)
CardMoveEvent(cardId, fromColumnId, fromSwimlaneId, fromIndex, toColumnId, toSwimlaneId, toIndex) ==
  [cardId |-> cardId, fromColumnId |-> fromColumnId, fromSwimlaneId |-> fromSwimlaneId,
   fromIndex |-> fromIndex, toColumnId |-> toColumnId, toSwimlaneId |-> toSwimlaneId,
   toIndex |-> toIndex]

isSameLocation(ev) ==
  ev.fromColumnId = ev.toColumnId /\ normalizeId(ev.fromSwimlaneId) = normalizeId(ev.toSwimlaneId)

InTargetGroup(c, ev) ==
  c.columnId = ev.toColumnId /\ normalizeId(c.swimlaneId) = normalizeId(ev.toSwimlaneId)

InSourceGroup(c, ev) ==
  /\ ~InTargetGroup(c, ev)
  /\ ~isSameLocation(ev)
  /\ c.columnId = ev.fromColumnId
  /\ normalizeId(c.swimlaneId) = normalizeId(ev.fromSwimlaneId)

\* Mutant: the target bucket is not sorted before the splice
targetColumnCards_unsorted(rest, movedCard, ev) ==
  Renumber(SpliceInsert(SelectSeq(rest, LAMBDA c : InTargetGroup(c, ev)),
                        ev.toIndex, movedCard))

\* The target bucket after sort, splice and renumbering
targetColumnCards(rest, movedCard, ev) ==
  Renumber(SpliceInsert(SortByOrder(SelectSeq(rest, LAMBDA c : InTargetGroup(c, ev))),
                        ev.toIndex, movedCard))

\* Mutant: the source bucket is left as it is (the gap is not closed)
sourceColumnCards_notRenumbered(rest, ev) ==
  SelectSeq(rest, LAMBDA c : InSourceGroup(c, ev))

\* The source bucket, sorted and renumbered when the location differs
sourceColumnCards(rest, ev) ==
  LET bucket == SelectSeq(rest, LAMBDA c : InSourceGroup(c, ev))
  IN  IF isSameLocation(ev) THEN bucket ELSE Renumber(SortByOrder(bucket))

\* Mutant: the cards outside both buckets are renumbered as well
otherCards_renumbered(rest, ev) ==
  Renumber(SelectSeq(rest, LAMBDA c : ~InTargetGroup(c, ev) /\ ~InSourceGroup(c, ev)))

otherCards(rest, ev) ==
  SelectSeq(rest, LAMBDA c : ~InTargetGroup(c, ev) /\ ~InSourceGroup(c, ev))

\* moveCard(event): the returned collection
moveCard(cs, ev) ==
  LET cardIndex == findIndex(cs, ev.cardId)
  IN  IF cardIndex = 0 THEN cs
      ELSE LET movedCard == [cs[cardIndex] EXCEPT !.columnId = ev.toColumnId,
                                                  !.swimlaneId = ev.toSwimlaneId]
               rest == RemoveAt(cs, cardIndex)
           IN  otherCards(rest, ev) \o targetColumnCards(rest, movedCard, ev)
                 \o sourceColumnCards(rest, ev)


\* moveCard of the second copy of useKanbanState: the source and the target
\* members are filtered with === on swimlaneId (no normalisation), the
\* source members are renumbered in array sequence, the buckets are filtered
\* from the same array and concatenated. The member objects are shared, so the
\* orders written by one forEach are seen by the later filters.
moveCardV1(cs, ev) ==
  LET cardIndex == findIndex(cs, ev.cardId)
      InS(c) == c.columnId = ev.fromColumnId /\ c.swimlaneId = ev.fromSwimlaneId
      InT(c) == c.columnId = ev.toColumnId /\ c.swimlaneId = ev.toSwimlaneId
  IN  IF cardIndex = 0 THEN cs
      ELSE LET updatedCard == [cs[cardIndex] EXCEPT !.columnId = ev.toColumnId,
                                                    !.swimlaneId = ev.toSwimlaneId,
                                                    !.order = ev.toIndex]
               rest == RemoveAt(cs, cardIndex)
               \* cards.filter(source).forEach((card, idx) => card.order = idx)
               rest1 == [k \in 1..Len(rest) |->
                           IF InS(rest[k])
                           THEN [rest[k] EXCEPT !.order =
                                   Cardinality({j \in 1..(k - 1) : InS(rest[j])})]
                           ELSE rest[k]]
               targetCards == Renumber(SpliceInsert(SelectSeq(rest1, InT), ev.toIndex, updatedCard))
               \* the target members of the array carry the orders just written
               rest2 == [k \in 1..Len(rest1) |->
                           IF InT(rest1[k])
                           THEN targetCards[CHOOSE j \in 1..Len(targetCards) :
                                              targetCards[j].id = rest1[k].id]
                           ELSE rest1[k]]
           IN  SelectSeq(rest2, LAMBDA c : ~InT(c) /\ ~InS(c)) \o targetCards
                 \o SelectSeq(rest2, InS)

\* The ColumnMoveEvent record (event.column is carried as its id)
ColumnMoveEvent(columnId, fromIndex, toIndex) ==
  [columnId |-> columnId, fromIndex |-> fromIndex, toIndex |-> toIndex]

\* Mutant: the columns keep the order values they had
moveColumn_notRenumbered(cols, ev) ==
  LET columnIndex == findIndex(cols, ev.columnId)
  IN  IF columnIndex = 0 THEN cols
      ELSE SpliceInsert(RemoveAt(cols, columnIndex), ev.toIndex, cols[columnIndex])

\* moveColumn(event): the returned collection
moveColumn(cols, ev) ==
  LET columnIndex == findIndex(cols, ev.columnId)
  IN  IF columnIndex = 0 THEN cols
      ELSE Renumber(SpliceInsert(RemoveAt(cols, columnIndex), ev.toIndex, cols[columnIndex]))

\* sortedColumns
sortedColumns == SortByOrder(columns)

\* The collection moveCard was called on, as it reads after the call. The
\* array is copied ([...currentCards.value]) but its card objects are not:
\* movedCard.columnId / swimlaneId and card.order are written on the objects
\* of the input, so each object of the input reads as it does in the result.
inputAfterMoveCard(cs, ev) ==
  LET result == moveCard(cs, ev)
  IN  [k \in 1..Len(cs) |-> result[findIndex(result, cs[k].id)]]

\* ------------------------------------------------------- board predicates
\* The group of a card: (columnId, swimlaneId), a missing swimlaneId and null
\* being the same group
SameGroup(a, b) ==
  a.columnId = b.columnId /\ normalizeId(a.swimlaneId) = normalizeId(b.swimlaneId)

GroupOf(cs, c) == {k \in 1..Len(cs) : SameGroup(cs[k], c)}

\* Every group has the order values 0..n-1, each once
IsDense(cs) ==
  \A i \in 1..Len(cs) :
    LET g == GroupOf(cs, cs[i])
    IN  /\ {cs[k].order : k \in g} = 0..(Cardinality(g) - 1)
        /\ \A k1, k2 \in g : cs[k1].order = cs[k2].order => k1 = k2

IdsOf(cs) == {cs[k].id : k \in 1..Len(cs)}

\* Each id occurs once
UniqueIds(cs) == \A i, j \in 1..Len(cs) : cs[i].id = cs[j].id => i = j

CardOf(cs, id) == cs[findIndex(cs, id)]

\* Same columnId, swimlaneId and order for every card id
SamePlacement(a, b) ==
  /\ IdsOf(a) = IdsOf(b)
  /\ UniqueIds(a) /\ UniqueIds(b)
  /\ \A id \in IdsOf(a) :
       /\ CardOf(a, id).columnId = CardOf(b, id).columnId
       /\ CardOf(a, id).swimlaneId = CardOf(b, id).swimlaneId
       /\ CardOf(a, id).order = CardOf(b, id).order

\* A card record; draggable = FALSE stands for draggable: false, TRUE for a
\* card without the field
Card(id, columnId, swimlaneId, order, draggable) ==
  [id |-> id, columnId |-> columnId, swimlaneId |-> swimlaneId, order |-> order,
   draggable |-> draggable]

\* The dense boards over the cards 1..n, stored in id sequence, with the
\* cards of undraggable marked draggable: false
BoardOf(n, col, sw, ord, undraggable) ==
  [i \in 1..n |-> Card(i, col[i], sw[i], ord[i], i \notin undraggable)]

IsDenseBoard(b, n, undraggable) ==
  \E col \in [1..n -> ColumnIds], sw \in [1..n -> SwimlaneValues] :
    \E ord \in [1..n -> 0..(n - 1)] :
      b = BoardOf(n, col, sw, ord, undraggable) /\ IsDense(b)

\* ---------------------------------------------------------------- events
NoMove == CardMoveEvent(0, 0, 0, 0, 0, 0, 0)

Event(name, type, id, success, move, payload) ==
  [name |-> name, type |-> type, id |-> id, success |-> success, move |-> move,
   cards |-> payload, columns |-> <<>>, swimlanes |-> Undefined]

DragStartEvent(type, id) == Event("drag-start", type, id, FALSE, NoMove, <<>>)
DragEndEvent(type, id, success) == Event("drag-end", type, id, success, NoMove, <<>>)
UpdateCardsEvent(updated) == Event("update:cards", "card", 0, FALSE, NoMove, updated)
CardMovedEvent(ev) == Event("card-moved", "card", ev.cardId, FALSE, ev, <<>>)

Emits(es, name) == \E k \in 1..Len(es) : es[k].name = name
CountOf(es, name) == Cardinality({k \in 1..Len(es) : es[k].name = name})

\* ------------------------------------------------------------ KanbanBoard
\* An option is "true", "false" or "unset" (the host gave no value)
NotFalse(v) == v # "false"

\* boardOptions: { enableSwimlanes: false, ...options }
boardEnableSwimlanes == options.enableSwimlanes = "true"

\* boardOptions: { enableDragDrop: true, ...options }
boardEnableDragDrop == NotFalse(options.enableDragDrop)

\* Mutant: the explicit swimlanes are taken in the sequence of the array
sortedSwimlanes_asGiven == swimlanes

\* sortedSwimlanes
sortedSwimlanes == SortByOrder(swimlanes)

\* Distinct defined swimlaneId values of the cards, in first appearance
RECURSIVE DistinctSwimlaneIds(_)
DistinctSwimlaneIds(cs) ==
  IF cs = <<>> THEN <<>>
  ELSE LET init == DistinctSwimlaneIds(SubSeq(cs, 1, Len(cs) - 1))
           id == cs[Len(cs)].swimlaneId
       IN  IF id = Undefined \/ (\E k \in 1..Len(init) : init[k] = id)
           THEN init ELSE Append(init, id)

\* effectiveSwimlanes
effectiveSwimlanes ==
  IF Len(swimlanes) > 0 THEN sortedSwimlanes
  ELSE LET ids == DistinctSwimlaneIds(cards)
       IN  [k \in 1..Len(ids) |-> [id |-> ids[k], order |-> k - 1]]

swimlanesEnabled == boardEnableSwimlanes /\ Len(effectiveSwimlanes) > 0

EffectiveSwimlaneIds == {effectiveSwimlanes[k].id : k \in 1..Len(effectiveSwimlanes)}

\* Mutant: emitBoardChange() without its argument, the payload being the
\* cards of the props
BoardChangeEvent_currentCards(updated) ==
  [Event("board-change", "card", 0, FALSE, NoMove, cards)
     EXCEPT !.columns = columns,
            !.swimlanes = IF swimlanesEnabled THEN swimlanes ELSE Undefined]

\* emitBoardChange(updatedCards): the columns, the updated cards and, with
\* swimlanes enabled, the swimlanes of the props
BoardChangeEvent(updated) ==
  [Event("board-change", "card", 0, FALSE, NoMove, updated)
     EXCEPT !.columns = columns,
            !.swimlanes = IF swimlanesEnabled THEN swimlanes ELSE Undefined]

\* The drop zones the template renders: one per column, or one per swimlane
\* and column; without swimlanes the zone carries no swimlane id
DropZones ==
  {columns[k].id : k \in 1..Len(columns)}
    \X (IF swimlanesEnabled THEN EffectiveSwimlaneIds ELSE {Undefined})

\* The cards the template renders (getColumnCards per rendered zone)
RenderedCards ==
  {k \in 1..Len(cards) :
     \E z \in DropZones :
       /\ cards[k].columnId = z[1]
       /\ z[2] # Undefined => cards[k].swimlaneId = z[2]}

ColumnOf(columnId) == columns[CHOOSE k \in 1..Len(columns) : columns[k].id = columnId]

\* Mutant: a column that has reached its wipLimit refuses the drop
canAcceptCards_underLimit(columnId) ==
  /\ ColumnOf(columnId).acceptsCards
  /\ \/ ColumnOf(columnId).wipLimit = NoWipLimit
     \/ Cardinality({k \in 1..Len(cards) : cards[k].columnId = columnId})
          < ColumnOf(columnId).wipLimit

\* Mutant: the column lets every drop through
canAcceptCards_always(columnId) == TRUE

\* KanbanColumn canAcceptCards
canAcceptCards(columnId) == ColumnOf(columnId).acceptsCards

\* ------------------------------------------------------------ useKanbanDrag
\* Mutant: resetDragState leaves the kind of the subject in place
IdleDragState_keepsKind ==
  [isDragging |-> FALSE, dragType |-> "card", draggedId |-> Null,
   sourceColumnId |-> Null, sourceSwimlaneId |-> Null,
   dropColumnId |-> Null, dropSwimlaneId |-> Null]

\* resetDragState
IdleDragState ==
  [isDragging |-> FALSE, dragType |-> "null", draggedId |-> Null,
   sourceColumnId |-> Null, sourceSwimlaneId |-> Null,
   dropColumnId |-> Null, dropSwimlaneId |-> Null]

\* x || null for an id
OrNull(id) == IF id = Undefined THEN Null ELSE id

\* isDragEnabled: options.enableDragDrop?.value !== false, the board passing
\* computed(() => options.enableDragDrop !== false)
isDragEnabled == NotFalse(options.enableDragDrop)

\* isColumnDragEnabled: options.enableColumnDrag?.value !== false, the board
\* passing computed(() => options.enableColumnDrag !== false)
isColumnDragEnabled == NotFalse(options.enableColumnDrag)

\* Mutant: the draggable field of the card is not looked at
CardDragRejected_ignoresDraggable(card) == ~isDragEnabled

\* startCardDrag: the early return
CardDragRejected(card) == ~isDragEnabled \/ ~card.draggable

\* startColumnDrag: the early return
ColumnDragRejected(column) == ~isColumnDragEnabled \/ ~column.draggable

\* The latest gesture that entered Dragging: its kind and subject, whether a
\* drop of it was refused by a column with acceptsCards = false, and for a
\* card drag the columnId the card had in the collection at drag start
NoGesture == [type |-> "null", id |-> Null, refused |-> FALSE, columnId |-> Null]

\* What the last handler call was: its name, the subject or zone it was
\* given, and the CardMoveEvent handed to moveCard by a direct call
Call(op, id, columnId, swimlaneId, move) ==
  [op |-> op, id |-> id, columnId |-> columnId, swimlaneId |-> swimlaneId, move |-> move]

NoRoundTrip == [phase |-> "none", orig |-> <<>>]

\* What the last call of a getter returned; NoView after any other call
NoView == <<>>

\* ------------------------------------------------------------------ Init
\* A column record; acceptsCards / draggable = FALSE stand for the field set
\* to false, TRUE for a column without the field
Column(id, order, acceptsCards, draggable) ==
  [id |-> id, order |-> order, acceptsCards |-> acceptsCards, draggable |-> draggable,
   wipLimit |-> NoWipLimit]

\* The boards a host hands over: all flags left out, or the last column
\* refusing cards, or the last column not draggable, or the first card not
\* draggable, or the last column with a wipLimit
Fixtures == {"plain", "acceptsCards", "columnDraggable", "cardDraggable", "wipLimit"}

\* The wipLimit of the last column in the fixture "wipLimit"
FixtureWipLimit == 1

FixtureColumns(f) ==
  [k \in 1..NumColumns |->
     [Column(k, k - 1, ~(f = "acceptsCards" /\ k = NumColumns),
             ~(f = "columnDraggable" /\ k = NumColumns))
        EXCEPT !.wipLimit = IF f = "wipLimit" /\ k = NumColumns
                            THEN FixtureWipLimit ELSE NoWipLimit]]

FixtureUndraggable(f) == IF f = "cardDraggable" THEN {1} ELSE {}

\* enableCardReordering is left out, or false with the drag options left out
OptionSets ==
  [enableDragDrop : {"unset", "false"}, enableColumnDrag : {"unset", "true", "false"},
   enableSwimlanes : {"unset", "true"}, enableCardReordering : {"unset"}]
    \cup [enableDragDrop : {"unset"}, enableColumnDrag : {"unset"},
          enableSwimlanes : {"unset", "true"}, enableCardReordering : {"false"}]

InitGhost ==
  /\ dragState = IdleDragState
  /\ lastCall = Call("none", Null, Null, Null, NoMove)
  /\ emitted = <<>>
  /\ gesture = NoGesture
  /\ ends = <<>>
  /\ prevCards = cards
  /\ prevColumns = columns
  /\ view = NoView
  /\ prevDrag = dragState
  /\ rt = NoRoundTrip

Init ==
  /\ \E f \in Fixtures :
       /\ columns = FixtureColumns(f)
       /\ IsDenseBoard(cards, BoardCards, FixtureUndraggable(f))
  /\ swimlanes = <<>>
  /\ options \in OptionSets
  /\ InitGhost

\* --------------------------------------------------------------- actions
\* KanbanCard.handleDragStart -> KanbanBoard.handleCardDragStart ->
\* startCardDrag(card), for a rendered card
StartCardDrag(k) ==
  LET card == cards[k]
  IN  /\ k \in RenderedCards
      /\ lastCall' = Call("startCardDrag", card.id, Null, Null, NoMove)
      /\ IF CardDragRejected(card)
         THEN /\ emitted' = <<>>
              /\ UNCHANGED <<dragState, gesture, ends>>
         ELSE /\ dragState' = [isDragging |-> TRUE, dragType |-> "card",
                               draggedId |-> card.id,
                               sourceColumnId |-> card.columnId,
                               sourceSwimlaneId |-> OrNull(card.swimlaneId),
                               dropColumnId |-> Null, dropSwimlaneId |-> Null]
              /\ emitted' = <<DragStartEvent("card", card.id)>>
              /\ gesture' = [type |-> "card", id |-> card.id, refused |-> FALSE,
                             columnId |-> cards[k].columnId]
              /\ ends' = <<>>
      /\ prevCards' = cards
      /\ prevColumns' = columns
      /\ view' = NoView
      /\ prevDrag' = dragState
      /\ UNCHANGED <<cards, columns, swimlanes, options, rt>>

\* startColumnDrag(column)
StartColumnDrag(k) ==
  LET column == columns[k]
  IN  /\ k \in 1..Len(columns)
      /\ lastCall' = Call("startColumnDrag", column.id, Null, Null, NoMove)
      /\ IF ColumnDragRejected(column)
         THEN /\ emitted' = <<>>
              /\ UNCHANGED <<dragState, gesture, ends>>
         ELSE /\ dragState' = [isDragging |-> TRUE, dragType |-> "column",
                               draggedId |-> column.id,
                               sourceColumnId |-> Null, sourceSwimlaneId |-> Null,
                               dropColumnId |-> Null, dropSwimlaneId |-> Null]
              /\ emitted' = <<DragStartEvent("column", column.id)>>
              /\ gesture' = [type |-> "column", id |-> column.id, refused |-> FALSE,
                             columnId |-> Null]
              /\ ends' = <<>>
      /\ prevCards' = cards
      /\ prevColumns' = columns
      /\ view' = NoView
      /\ prevDrag' = dragState
      /\ UNCHANGED <<cards, columns, swimlanes, options, rt>>

\* Mutant: handleDragOver records the zone without the test of isDragging
HandleDragOver_whenIdle(columnId, swimlaneId) ==
  /\ <<columnId, swimlaneId>> \in DropZones
  /\ lastCall' = Call("handleDragOver", Null, columnId, swimlaneId, NoMove)
  /\ IF ~canAcceptCards(columnId) \/ ~isDragEnabled
     THEN UNCHANGED dragState
     ELSE dragState' = [dragState EXCEPT !.dropColumnId = columnId,
                                         !.dropSwimlaneId = OrNull(swimlaneId)]
  /\ emitted' = <<>>
  /\ prevCards' = cards
  /\ prevColumns' = columns
  /\ view' = NoView
  /\ prevDrag' = dragState
  /\ UNCHANGED <<cards, columns, swimlanes, options, gesture, ends, rt>>

\* KanbanColumn.handleDragOver -> KanbanBoard.handleColumnDragOver ->
\* handleDragOver(event, columnId, swimlaneId)
HandleDragOver(columnId, swimlaneId) ==
  /\ <<columnId, swimlaneId>> \in DropZones
  /\ lastCall' = Call("handleDragOver", Null, columnId, swimlaneId, NoMove)
  /\ IF ~canAcceptCards(columnId) \/ ~isDragEnabled \/ ~dragState.isDragging
     THEN UNCHANGED dragState
     ELSE dragState' = [dragState EXCEPT !.dropColumnId = columnId,
                                         !.dropSwimlaneId = OrNull(swimlaneId)]
  /\ emitted' = <<>>
  /\ prevCards' = cards
  /\ prevColumns' = columns
  /\ view' = NoView
  /\ prevDrag' = dragState
  /\ UNCHANGED <<cards, columns, swimlanes, options, gesture, ends, rt>>

\* handleDrop: the drop index. cardsInColumn.length, or the dragged card's
\* index in cardsInColumn when the zone is (===) the recorded source
DropToIndex(columnId, swimlaneId) ==
  LET cardsInColumn == getCardsForColumn(cards, columnId, swimlaneId)
      fromIndex == findIndex(cardsInColumn, dragState.draggedId)
  IN  IF /\ columnId = dragState.sourceColumnId
         /\ swimlaneId = dragState.sourceSwimlaneId
         /\ fromIndex # 0
      THEN fromIndex - 1
      ELSE Len(cardsInColumn)

\* handleDrop: actuallyMoved
actuallyMoved(columnId, swimlaneId, toIndex, card) ==
  \/ columnId # dragState.sourceColumnId
  \/ swimlaneId # dragState.sourceSwimlaneId
  \/ toIndex # card.order

\* handleDrop: the CardMoveEvent handed to onCardMoved
DropMoveEvent(columnId, swimlaneId, card) ==
  CardMoveEvent(card.id, dragState.sourceColumnId, dragState.sourceSwimlaneId,
                card.order, columnId, swimlaneId, DropToIndex(columnId, swimlaneId))

\* KanbanColumn.handleDrop -> KanbanBoard.handleColumnDrop -> handleDrop, and
\* onCardMoved when the drop moves the card. The host binds the cards with
\* v-model: the collection of update:cards becomes the current one.
\* (With positive ids the branches !draggedId and !fromColumnId are the
\* branch dragType !== 'card'.)
HandleDrop(columnId, swimlaneId) ==
  /\ <<columnId, swimlaneId>> \in DropZones
  /\ lastCall' = Call("handleDrop", Null, columnId, swimlaneId, NoMove)
  /\ prevCards' = cards
  /\ prevColumns' = columns
  /\ view' = NoView
  /\ prevDrag' = dragState
  /\ gesture' = IF ~canAcceptCards(columnId) /\ dragState.isDragging
                THEN [gesture EXCEPT !.refused = TRUE] ELSE gesture
  /\ IF ~canAcceptCards(columnId)
     THEN /\ emitted' = <<>>
          /\ UNCHANGED <<cards, dragState, ends>>
     ELSE IF \/ ~isDragEnabled
             \/ dragState.dragType # "card"
             \/ findIndex(cards, dragState.draggedId) = 0
     THEN /\ emitted' = <<>>
          /\ dragState' = IdleDragState
          /\ UNCHANGED <<cards, ends>>
     ELSE LET card == getCardById(cards, dragState.draggedId)
              toIndex == DropToIndex(columnId, swimlaneId)
              moveEvent == DropMoveEvent(columnId, swimlaneId, card)
              updatedCards == moveCard(cards, moveEvent)
              dragEnd == DragEndEvent("card", dragState.draggedId, TRUE)
          IN  /\ IF actuallyMoved(columnId, swimlaneId, toIndex, card)
                 THEN /\ cards' = updatedCards
                      /\ emitted' = <<UpdateCardsEvent(updatedCards),
                                      CardMovedEvent(moveEvent),
                                      BoardChangeEvent(updatedCards), dragEnd>>
                 ELSE /\ cards' = cards
                      /\ emitted' = <<dragEnd>>
              /\ ends' = Append(ends, dragEnd)
              /\ dragState' = IdleDragState
  /\ UNCHANGED <<columns, swimlanes, options, rt>>

\* Mutant: the cancellation reports a board change
HandleDragEnd_emitsBoardChange ==
  LET dragEnd == DragEndEvent(dragState.dragType, dragState.draggedId, FALSE)
      fires == dragState.draggedId # Null /\ dragState.dragType # "null"
  IN  /\ lastCall' = Call("handleDragEnd", Null, Null, Null, NoMove)
      /\ emitted' = IF fires THEN <<BoardChangeEvent(cards), dragEnd>> ELSE <<>>
      /\ ends' = IF fires THEN Append(ends, dragEnd) ELSE ends
      /\ dragState' = IdleDragState
      /\ prevCards' = cards
      /\ prevColumns' = columns
      /\ view' = NoView
      /\ prevDrag' = dragState
      /\ UNCHANGED <<cards, columns, swimlanes, options, gesture, rt>>

\* Mutant: onDragEnd is called without the test of draggedId and dragType
HandleDragEnd_unguarded ==
  LET dragEnd == DragEndEvent(dragState.dragType, dragState.draggedId, FALSE)
  IN  /\ lastCall' = Call("handleDragEnd", Null, Null, Null, NoMove)
      /\ emitted' = <<dragEnd>>
      /\ ends' = Append(ends, dragEnd)
      /\ dragState' = IdleDragState
      /\ prevCards' = cards
      /\ prevColumns' = columns
      /\ view' = NoView
      /\ prevDrag' = dragState
      /\ UNCHANGED <<cards, columns, swimlanes, options, gesture, rt>>

\* KanbanCard.handleDragEnd -> KanbanBoard.handleCardDragEnd -> handleDragEnd
HandleDragEnd ==
  LET dragEnd == DragEndEvent(dragState.dragType, dragState.draggedId, FALSE)
      fires == dragState.draggedId # Null /\ dragState.dragType # "null"
  IN  /\ lastCall' = Call("handleDragEnd", Null, Null, Null, NoMove)
      /\ emitted' = IF fires THEN <<dragEnd>> ELSE <<>>
      /\ ends' = IF fires THEN Append(ends, dragEnd) ELSE ends
      /\ dragState' = IdleDragState
      /\ prevCards' = cards
      /\ prevColumns' = columns
      /\ view' = NoView
      /\ prevDrag' = dragState
      /\ UNCHANGED <<cards, columns, swimlanes, options, gesture, rt>>

\* The host replaces the cards prop by a collection without one of the cards
\* (KanbanBoard reads props.cards through toRef), the orders of the card's
\* group closed up
WithoutCard(cs, k) ==
  LET rest == RemoveAt(cs, k)
  IN  [i \in 1..Len(rest) |->
         IF SameGroup(rest[i], cs[k]) /\ rest[i].order > cs[k].order
         THEN [rest[i] EXCEPT !.order = rest[i].order - 1]
         ELSE rest[i]]

HostRemovesCard(k) ==
  /\ k \in 1..Len(cards)
  /\ cards' = WithoutCard(cards, k)
  /\ lastCall' = Call("hostRemovesCard", cards[k].id, Null, Null, NoMove)
  /\ emitted' = <<>>
  /\ prevCards' = cards
  /\ prevColumns' = columns
  /\ view' = NoView
  /\ prevDrag' = dragState
  /\ UNCHANGED <<columns, swimlanes, options, dragState, gesture, ends, rt>>

Next ==
  \/ \E k \in 1..BoardCards : StartCardDrag(k)
  \/ \E k \in 1..NumColumns : StartColumnDrag(k)
  \/ \E columnId \in ColumnIds, swimlaneId \in SwimlaneValues : HandleDragOver(columnId, swimlaneId)
  \/ \E columnId \in ColumnIds, swimlaneId \in SwimlaneValues : HandleDrop(columnId, swimlaneId)
  \/ HandleDragEnd
  \/ \E k \in 1..BoardCards : HostRemovesCard(k)

Spec == Init /\ [][Next]_vars

\* ------------------------------------------------- direct calls of moveCard
\* The host calls the exported moveCard with an event that describes a card
\* of the collection and its present group (fromSwimlaneId as the card has
\* it, or as handleDrop passes it: x || null), and takes the returned
\* collection as the current one.
MoveInit ==
  /\ columns = FixtureColumns("plain")
  /\ IsDenseBoard(cards, NumCards, {})
  /\ swimlanes = <<>>
  /\ options = [enableDragDrop |-> "unset", enableColumnDrag |-> "unset",
                enableSwimlanes |-> "unset", enableCardReordering |-> "unset"]
  /\ InitGhost

EventFor(card, fromSwimlaneId, toColumnId, toSwimlaneId, toIndex) ==
  CardMoveEvent(card.id, card.columnId, fromSwimlaneId, card.order,
                toColumnId, toSwimlaneId, toIndex)

MoveCardCall(k, fromSwimlaneId, toColumnId, toSwimlaneId, toIndex) ==
  /\ lastCall.op = "none"
  /\ k \in 1..Len(cards)
  /\ fromSwimlaneId \in {cards[k].swimlaneId, OrNull(cards[k].swimlaneId)}
  /\ LET ev == EventFor(cards[k], fromSwimlaneId, toColumnId, toSwimlaneId, toIndex)
     IN  /\ cards' = moveCard(cards, ev)
         /\ lastCall' = Call("moveCard", cards[k].id, Null, Null, ev)
  /\ prevCards' = cards
  /\ prevColumns' = columns
  /\ view' = NoView
  /\ UNCHANGED <<columns, swimlanes, options, dragState, emitted, gesture, ends, prevDrag, rt>>

\* After a move within one group to an index of that group, the host moves
\* the same card back to the index it came from
MoveBack ==
  /\ lastCall.op = "moveCard"
  /\ rt.phase = "none"
  /\ isSameLocation(lastCall.move)
  /\ lastCall.move.toIndex \in 0..(Cardinality(GroupOf(cards, CardOf(cards, lastCall.id))) - 1)
  /\ LET card == CardOf(cards, lastCall.id)
         ev == EventFor(card, card.swimlaneId, card.columnId, card.swimlaneId,
                        lastCall.move.fromIndex)
     IN  /\ cards' = moveCard(cards, ev)
         /\ lastCall' = Call("moveCard", card.id, Null, Null, ev)
  /\ rt' = [phase |-> "back", orig |-> prevCards]
  /\ prevCards' = cards
  /\ prevColumns' = columns
  /\ view' = NoView
  /\ UNCHANGED <<columns, swimlanes, options, dragState, emitted, gesture, ends, prevDrag>>

\* The returned collection is the current one for the next call
HostAdopts ==
  /\ lastCall.op = "moveCard"
  /\ lastCall' = Call("none", Null, Null, Null, NoMove)
  /\ prevCards' = cards
  /\ prevColumns' = columns
  /\ view' = NoView
  /\ rt' = NoRoundTrip
  /\ UNCHANGED <<cards, columns, swimlanes, options, dragState, emitted, gesture, ends, prevDrag>>

MoveNext ==
  \/ \E k \in 1..NumCards, fromSwimlaneId \in SwimlaneValues \cup {Null},
        toColumnId \in ColumnIds, toSwimlaneId \in SwimlaneValues, toIndex \in ToIndexes :
       MoveCardCall(k, fromSwimlaneId, toColumnId, toSwimlaneId, toIndex)
  \/ MoveBack
  \/ HostAdopts

SpecMove == MoveInit /\ [][MoveNext]_vars

\* The same calls on the moveCard of the second copy of useKanbanState
MoveCardV1Call(k, fromSwimlaneId, toColumnId, toSwimlaneId, toIndex) ==
  /\ lastCall.op = "none"
  /\ UniqueIds(cards)
  /\ k \in 1..Len(cards)
  /\ fromSwimlaneId \in {cards[k].swimlaneId, OrNull(cards[k].swimlaneId)}
  /\ LET ev == EventFor(cards[k], fromSwimlaneId, toColumnId, toSwimlaneId, toIndex)
     IN  /\ cards' = moveCardV1(cards, ev)
         /\ lastCall' = Call("moveCard", cards[k].id, Null, Null, ev)
  /\ prevCards' = cards
  /\ prevColumns' = columns
  /\ view' = NoView
  /\ UNCHANGED <<columns, swimlanes, options, dragState, emitted, gesture, ends, prevDrag, rt>>

MoveV1Next ==
  \/ \E k \in 1..NumCards, fromSwimlaneId \in SwimlaneValues \cup {Null},
        toColumnId \in ColumnIds, toSwimlaneId \in SwimlaneValues, toIndex \in ToIndexes :
       MoveCardV1Call(k, fromSwimlaneId, toColumnId, toSwimlaneId, toIndex)
  \/ HostAdopts

SpecMoveV1 == MoveInit /\ [][MoveV1Next]_vars

\* Calls of moveCard with an event for a card that is not (or no longer) in
\* the collection, next to the calls for cards that are
StaleCardId == NumCards + 1

MoveCardStaleCall(fromColumnId, toColumnId, toSwimlaneId, toIndex) ==
  /\ lastCall.op = "none"
  /\ LET ev == CardMoveEvent(StaleCardId, fromColumnId, Undefined, 0,
                             toColumnId, toSwimlaneId, toIndex)
     IN  /\ cards' = moveCard(cards, ev)
         /\ lastCall' = Call("moveCard", StaleCardId, Null, Null, ev)
  /\ prevCards' = cards
  /\ prevColumns' = columns
  /\ view' = NoView
  /\ UNCHANGED <<columns, swimlanes, options, dragState, emitted, gesture, ends, prevDrag, rt>>

MoveStaleNext ==
  \/ \E k \in 1..NumCards, fromSwimlaneId \in SwimlaneValues \cup {Null},
        toColumnId \in ColumnIds, toSwimlaneId \in SwimlaneValues, toIndex \in ToIndexes :
       MoveCardCall(k, fromSwimlaneId, toColumnId, toSwimlaneId, toIndex)
  \/ \E fromColumnId \in ColumnIds, toColumnId \in ColumnIds,
        toSwimlaneId \in SwimlaneValues, toIndex \in ToIndexes :
       MoveCardStaleCall(fromColumnId, toColumnId, toSwimlaneId, toIndex)
  \/ HostAdopts

SpecMoveStale == MoveInit /\ [][MoveStaleNext]_vars

\* ----------------------------------------------- direct calls of moveColumn
\* The host calls the exported moveColumn and takes the returned collection
\* as the current one. The columns prop has dense order values; the sequence
\* of the array is the host's and need not be the sequence of the orders.
MoveColumns == 3

ColumnInit ==
  /\ \E ord \in [1..MoveColumns -> 0..(MoveColumns - 1)] :
       /\ \A i, j \in 1..MoveColumns : ord[i] = ord[j] => i = j
       /\ columns = [k \in 1..MoveColumns |-> Column(k, ord[k], TRUE, TRUE)]
  /\ cards = <<>>
  /\ swimlanes = <<>>
  /\ options = [enableDragDrop |-> "unset", enableColumnDrag |-> "unset",
                enableSwimlanes |-> "unset", enableCardReordering |-> "unset"]
  /\ InitGhost

\* The id of the event's column: a column of the collection, or one that is
\* not in it
MoveColumnCall(columnId, toIndex) ==
  /\ lastCall.op = "none"
  /\ LET fromIndex == findIndex(columns, columnId) - 1
         ev == ColumnMoveEvent(columnId, fromIndex, toIndex)
     IN  /\ columns' = moveColumn(columns, ev)
         /\ lastCall' = Call("moveColumn", columnId, Null, Null, ev)
  /\ prevCards' = cards
  /\ prevColumns' = columns
  /\ view' = NoView
  /\ UNCHANGED <<cards, swimlanes, options, dragState, emitted, gesture, ends, prevDrag, rt>>

\* The returned columns are the current ones for the next call
HostAdoptsColumns ==
  /\ lastCall.op = "moveColumn"
  /\ lastCall' = Call("none", Null, Null, Null, NoMove)
  /\ prevCards' = cards
  /\ prevColumns' = columns
  /\ view' = NoView
  /\ UNCHANGED <<cards, columns, swimlanes, options, dragState, emitted, gesture, ends, prevDrag, rt>>

ColumnNext ==
  \/ \E columnId \in 1..(MoveColumns + 1), toIndex \in (0 - NegIndexes)..MoveColumns :
       MoveColumnCall(columnId, toIndex)
  \/ HostAdoptsColumns

SpecColumns == ColumnInit /\ [][ColumnNext]_vars

\* ------------------------------------------- boards without swimlane rows
\* With enableSwimlanes left out or false the board renders one drop zone per
\* column; the cards may carry any swimlaneId and every column is densely
\* ordered as a whole.
IsColumnDense(cs) ==
  \A i \in 1..Len(cs) :
    LET g == {k \in 1..Len(cs) : cs[k].columnId = cs[i].columnId}
    IN  /\ {cs[k].order : k \in g} = 0..(Cardinality(g) - 1)
        /\ \A k1, k2 \in g : cs[k1].order = cs[k2].order => k1 = k2

FlatInit ==
  /\ columns = FixtureColumns("plain")
  /\ \E col \in [1..BoardCards -> ColumnIds], sw \in [1..BoardCards -> SwimlaneValues] :
       \E ord \in [1..BoardCards -> 0..(BoardCards - 1)] :
         /\ cards = BoardOf(BoardCards, col, sw, ord, {})
         /\ IsColumnDense(cards)
  /\ swimlanes = <<>>
  /\ options \in [enableDragDrop : {"unset"}, enableColumnDrag : {"unset"},
                  enableSwimlanes : {"unset", "false"}, enableCardReordering : {"unset"}]
  /\ InitGhost

FlatNext ==
  \/ \E k \in 1..BoardCards : StartCardDrag(k)
  \/ \E k \in 1..NumColumns : StartColumnDrag(k)
  \/ \E columnId \in ColumnIds, swimlaneId \in SwimlaneValues : HandleDragOver(columnId, swimlaneId)
  \/ \E columnId \in ColumnIds, swimlaneId \in SwimlaneValues : HandleDrop(columnId, swimlaneId)
  \/ HandleDragEnd

SpecFlat == FlatInit /\ [][FlatNext]_vars

\* ------------------------------------------------------ calls of the getters
\* The host (or the board's template) reads the derived views of
\* useKanbanState: getCardsForColumn, isColumnOverLimit, effectiveSwimlanes;
\* the board renders a KanbanColumn per zone, with or without swimlane rows.
\* The first column has no wipLimit or one of 0..MaxWipLimit; the swimlanes
\* prop is empty or lists ViewSwimlanes swimlanes in any array sequence.
ViewSwimlanes == 2
MaxWipLimit == 2

ViewSwimlaneValues == {Undefined} \cup (1..ViewSwimlanes)

ViewInit ==
  /\ \E w \in {NoWipLimit} \cup (0..MaxWipLimit) :
       columns = [k \in 1..NumColumns |->
                    [Column(k, k - 1, TRUE, TRUE)
                       EXCEPT !.wipLimit = IF k = 1 THEN w ELSE NoWipLimit]]
  /\ \E col \in [1..NumCards -> ColumnIds], sw \in [1..NumCards -> ViewSwimlaneValues] :
       \E ord \in [1..NumCards -> 0..(NumCards - 1)] :
         /\ cards = BoardOf(NumCards, col, sw, ord, {})
         /\ IsDense(cards)
  /\ \/ swimlanes = <<>>
     \/ \E ord \in [1..ViewSwimlanes -> 0..(ViewSwimlanes - 1)] :
          /\ \A i, j \in 1..ViewSwimlanes : ord[i] = ord[j] => i = j
          /\ swimlanes = [k \in 1..ViewSwimlanes |-> [id |-> k, order |-> ord[k]]]
  /\ options \in [enableDragDrop : {"unset"}, enableColumnDrag : {"unset"},
                  enableSwimlanes : {"unset", "true"}, enableCardReordering : {"unset"}]
  /\ InitGhost

\* What a getter call leaves alone: everything but lastCall and view
ViewFrame ==
  /\ prevCards' = cards
  /\ prevColumns' = columns
  /\ UNCHANGED <<cards, columns, swimlanes, options, dragState, emitted, gesture, ends, prevDrag, rt>>

GetCardsForColumnCall(columnId, swimlaneId) ==
  /\ view' = getCardsForColumn(cards, columnId, swimlaneId)
  /\ lastCall' = Call("getCardsForColumn", Null, columnId, swimlaneId, NoMove)
  /\ ViewFrame

IsColumnOverLimitCall(columnId) ==
  /\ view' = isColumnOverLimit(columns, cards, columnId)
  /\ lastCall' = Call("isColumnOverLimit", Null, columnId, Null, NoMove)
  /\ ViewFrame

EffectiveSwimlanesCall ==
  /\ view' = effectiveSwimlanes
  /\ lastCall' = Call("effectiveSwimlanes", Null, Null, Null, NoMove)
  /\ ViewFrame

\* KanbanBoard.getColumnCards: the cards prop of the KanbanColumn of a zone
getColumnCards(columnId, swimlaneId) == getCardsForColumn(cards, columnId, swimlaneId)

\* KanbanColumn: cardCount
cardCount(cs) == Len(cs)

\* KanbanColumn: isOverLimit, from the column and the cards it was given
isOverLimit(column, cs) ==
  IF column.wipLimit = NoWipLimit \/ column.wipLimit = 0 THEN FALSE
  ELSE cardCount(cs) > column.wipLimit

\* The KanbanColumn of a rendered zone evaluates isOverLimit
ColumnIsOverLimitCall(columnId, swimlaneId) ==
  /\ <<columnId, swimlaneId>> \in DropZones
  /\ view' = isOverLimit(ColumnOf(columnId), getColumnCards(columnId, swimlaneId))
  /\ lastCall' = Call("KanbanColumn.isOverLimit", Null, columnId, swimlaneId, NoMove)
  /\ ViewFrame

ViewNext ==
  \/ \E columnId \in 1..(NumColumns + 1), swimlaneId \in ViewSwimlaneValues :
       GetCardsForColumnCall(columnId, swimlaneId)
  \/ \E columnId \in 1..(NumColumns + 1) : IsColumnOverLimitCall(columnId)
  \/ EffectiveSwimlanesCall
  \/ \E columnId \in ColumnIds, swimlaneId \in ViewSwimlaneValues :
       ColumnIsOverLimitCall(columnId, swimlaneId)

SpecViews == ViewInit /\ [][ViewNext]_vars

\* ------------------------------------------------ boards with swimlane rows
\* The host enables swimlanes and gives no swimlanes prop: the rows are
\* derived from the cards, which carry one of ViewSwimlanes swimlane ids or
\* none, and every (column, swimlane) zone is a drop target.
LaneInit ==
  /\ columns = FixtureColumns("plain")
  /\ \E col \in [1..BoardCards -> ColumnIds], sw \in [1..BoardCards -> ViewSwimlaneValues] :
       \E ord \in [1..BoardCards -> 0..(BoardCards - 1)] :
         /\ cards = BoardOf(BoardCards, col, sw, ord, {})
         /\ IsDense(cards)
  /\ swimlanes = <<>>
  /\ options = [enableDragDrop |-> "unset", enableColumnDrag |-> "unset",
                enableSwimlanes |-> "true", enableCardReordering |-> "unset"]
  /\ InitGhost

LaneNext ==
  \/ \E k \in 1..BoardCards : StartCardDrag(k)
  \/ \E k \in 1..NumColumns : StartColumnDrag(k)
  \/ \E columnId \in ColumnIds, swimlaneId \in ViewSwimlaneValues : HandleDragOver(columnId, swimlaneId)
  \/ \E columnId \in ColumnIds, swimlaneId \in ViewSwimlaneValues : HandleDrop(columnId, swimlaneId)
  \/ HandleDragEnd

SpecLanes == LaneInit /\ [][LaneNext]_vars

\* ================================================================ claims
\* The card with this id, before and after the last call
Before(id) == CardOf(prevCards, id)
After(id) == CardOf(cards, id)

\* The cards of prevCards in the group (columnId, swimlaneId) apart from id
OthersIn(columnId, swimlaneId, id) ==
  {c \in {prevCards[k] : k \in 1..Len(prevCards)} :
     /\ c.id # id
     /\ c.columnId = columnId
     /\ normalizeId(c.swimlaneId) = normalizeId(swimlaneId)}

\* Position of c among such a set of cards, by the order they had
RankIn(group, c) == Cardinality({d \in group : d.order < c.order})

\* C1: starting from a dense board, after any sequence of moveCard calls
\* every group has the order values 0..n-1, without duplicate and without gap
C1_DenseAfterMoves == IsDense(cards)

\* C1 witness: a move to another group took a card from below other cards of
\* its group, so that a gap had to be closed
C1_Witness ==
  /\ lastCall.op = "moveCard"
  /\ ~isSameLocation(lastCall.move)
  /\ \E c \in OthersIn(lastCall.move.fromColumnId, lastCall.move.fromSwimlaneId, lastCall.id) :
       c.order > lastCall.move.fromIndex
  /\ IsDense(cards)

\* C2: the collection returned by moveCard has exactly the card ids of the
\* collection before the move, each once
C2_IdsPreserved ==
  lastCall.op = "moveCard" =>
    /\ IdsOf(cards) = IdsOf(prevCards)
    /\ Len(cards) = Len(prevCards)
    /\ UniqueIds(cards)

\* C3: a move to group g at index k, 0 <= k <= number of other cards of g,
\* puts the card in g with order k, keeps the other cards of g in their
\* relative order with those from position k on shifted by one, and, when the
\* source group is another one, renumbers the cards left there 0..m-1 in
\* their relative order
C3_MovePlacesCard ==
  LET ev == lastCall.move
      target == OthersIn(ev.toColumnId, ev.toSwimlaneId, ev.cardId)
      source == OthersIn(ev.fromColumnId, ev.fromSwimlaneId, ev.cardId)
  IN  (lastCall.op = "moveCard" /\ ev.toIndex \in 0..Cardinality(target)) =>
        /\ After(ev.cardId).columnId = ev.toColumnId
        /\ After(ev.cardId).swimlaneId = ev.toSwimlaneId
        /\ After(ev.cardId).order = ev.toIndex
        /\ \A c \in target :
             /\ After(c.id).columnId = c.columnId
             /\ After(c.id).swimlaneId = c.swimlaneId
             /\ After(c.id).order =
                  RankIn(target, c) + (IF RankIn(target, c) >= ev.toIndex THEN 1 ELSE 0)
        /\ \A c \in source \ target :
             /\ After(c.id).columnId = c.columnId
             /\ After(c.id).swimlaneId = c.swimlaneId
             /\ After(c.id).order = RankIn(source, c)

\* C3 witness: c1(A,0), c2(A,1), c3(B,0); c1 moved to B at index 0 gives
\* c1(B,0), c3(B,1), c2(A,0)
C3_Witness ==
  /\ lastCall.op = "moveCard"
  /\ lastCall.move.cardId = 1 /\ lastCall.move.toColumnId = 2 /\ lastCall.move.toIndex = 0
  /\ Before(1).columnId = 1 /\ Before(1).order = 0
  /\ Before(2).columnId = 1 /\ Before(2).order = 1
  /\ Before(3).columnId = 2 /\ Before(3).order = 0
  /\ \A id \in 1..3 : Before(id).swimlaneId = Undefined
  /\ lastCall.move.toSwimlaneId = Undefined
  /\ After(1).columnId = 2 /\ After(1).order = 0
  /\ After(3).columnId = 2 /\ After(3).order = 1
  /\ After(2).columnId = 1 /\ After(2).order = 0

\* C5: a move of a card to its own group and its own index returns every
\* card with the columnId, swimlaneId and order it had
C5_MoveToOwnPlace ==
  LET ev == lastCall.move
  IN  (/\ lastCall.op = "moveCard"
       /\ ev.toColumnId = Before(ev.cardId).columnId
       /\ ev.toSwimlaneId = Before(ev.cardId).swimlaneId
       /\ ev.toIndex = Before(ev.cardId).order) =>
        SamePlacement(cards, prevCards)

\* C5 witness: such a move of a card that has cards of its group before and
\* after it
C5_Witness ==
  LET ev == lastCall.move
  IN  /\ lastCall.op = "moveCard"
      /\ ev.toColumnId = Before(ev.cardId).columnId
      /\ ev.toSwimlaneId = Before(ev.cardId).swimlaneId
      /\ ev.toIndex = Before(ev.cardId).order
      /\ ev.toIndex = 1
      /\ Cardinality(OthersIn(ev.toColumnId, ev.toSwimlaneId, ev.cardId)) = 2
      /\ SamePlacement(cards, prevCards)

\* C6: a move from index i to index j within a group followed by the move
\* back from j to i gives every card the order it had
C6_RoundTrip == rt.phase = "back" => SamePlacement(cards, rt.orig)

\* C6 witness: a round trip between two different indices of a group of
\* three cards
C6_Witness ==
  /\ rt.phase = "back"
  /\ lastCall.move.toIndex # lastCall.move.fromIndex
  /\ Cardinality(GroupOf(cards, After(lastCall.id))) = 3
  /\ SamePlacement(cards, rt.orig)

\* The last call was a drop that committed: it ended the gesture with a
\* drag-end of its own
CommittingDrop == lastCall.op = "handleDrop" /\ Emits(emitted, "drag-end")

\* The drag-end events of the last call
DragEnds == {emitted[k] : k \in {j \in 1..Len(emitted) : emitted[j].name = "drag-end"}}

\* C4: a committing drop emits card-moved and board-change if and only if
\* some card's group or order in the resulting collection differs from before
C4_EventsIffChanged ==
  CommittingDrop =>
    /\ Emits(emitted, "card-moved") <=> ~SamePlacement(cards, prevCards)
    /\ Emits(emitted, "board-change") <=> ~SamePlacement(cards, prevCards)

\* C7: while a drag is active a further startCardDrag or startColumnDrag for
\* another subject changes nothing in the drag state and emits no drag-start
C7_SecondStartRejected ==
  [][(/\ dragState.isDragging
      /\ lastCall'.op \in {"startCardDrag", "startColumnDrag"}
      /\ \/ lastCall'.id # dragState.draggedId
         \/ (lastCall'.op = "startCardDrag") # (dragState.dragType = "card"))
     => (dragState' = dragState /\ ~Emits(emitted', "drag-start"))]_vars

\* C8: from Idle, startCardDrag stays Idle without drag-start when
\* enableDragDrop is false or the card has draggable = false, startColumnDrag
\* when enableColumnDrag is false or the column has draggable = false;
\* otherwise the state is Dragging with the subject's id, kind and source
\* group and exactly one drag-start is emitted
C8_StartGuards ==
  [][(~dragState.isDragging /\ lastCall'.op \in {"startCardDrag", "startColumnDrag"}) =>
       LET id == lastCall'.id
           isCard == lastCall'.op = "startCardDrag"
           refused == IF isCard
                      THEN options.enableDragDrop = "false" \/ ~CardOf(cards, id).draggable
                      ELSE options.enableColumnDrag = "false" \/ ~ColumnOf(id).draggable
       IN  IF refused
           THEN dragState' = IdleDragState /\ emitted' = <<>>
           ELSE /\ dragState'.isDragging
                /\ dragState'.draggedId = id
                /\ dragState'.dragType = (IF isCard THEN "card" ELSE "column")
                /\ dragState'.sourceColumnId =
                     (IF isCard THEN CardOf(cards, id).columnId ELSE Null)
                /\ dragState'.sourceSwimlaneId =
                     (IF isCard THEN normalizeId(CardOf(cards, id).swimlaneId) ELSE Null)
                /\ dragState'.dropColumnId = Null /\ dragState'.dropSwimlaneId = Null
                /\ emitted' = <<DragStartEvent(IF isCard THEN "card" ELSE "column", id)>>
     ]_vars

\* C8 witness: startCardDrag was called in Idle for a card with
\* draggable = false while card dragging is enabled, and the state is Idle
C8_Witness ==
  /\ lastCall.op = "startCardDrag"
  /\ ~CardOf(cards, lastCall.id).draggable
  /\ options.enableDragDrop # "false"
  /\ gesture = NoGesture
  /\ dragState = IdleDragState
  /\ emitted = <<>>

\* C9: when the machine is back in Idle, the gesture that entered Dragging
\* has emitted a drag-end with its subject id and kind
C9_DragEndForEveryGesture ==
  (~dragState.isDragging /\ gesture # NoGesture) =>
    \E k \in 1..Len(ends) : ends[k].id = gesture.id /\ ends[k].type = gesture.type

\* C10: drag-end has success = true exactly when a drop ended the gesture and
\* false when handleDragEnd did; a committing drop that leaves the card's
\* group and index unchanged emits drag-end with success = true and neither
\* card-moved nor board-change
C10_SuccessFlag ==
  /\ \A e \in DragEnds : e.success = (lastCall.op = "handleDrop")
  /\ \A e \in DragEnds :
       (/\ lastCall.op = "handleDrop"
        /\ After(e.id).columnId = Before(e.id).columnId
        /\ After(e.id).swimlaneId = Before(e.id).swimlaneId
        /\ After(e.id).order = Before(e.id).order) =>
         /\ e.success
         /\ ~Emits(emitted, "card-moved")
         /\ ~Emits(emitted, "board-change")

\* The last call was a drop that reached handleDrop of useKanbanDrag (the
\* column lets it through) while a drag was active
DropArrived ==
  /\ lastCall.op = "handleDrop"
  /\ ColumnOf(lastCall.columnId).acceptsCards
  /\ prevDrag.isDragging

\* The last call emitted none of update:cards, card-moved, board-change
NoStoreEvents ==
  /\ ~Emits(emitted, "update:cards")
  /\ ~Emits(emitted, "card-moved")
  /\ ~Emits(emitted, "board-change")

\* The last call left the column collection as it was
ColumnsUntouched == columns = prevColumns

\* C11: a drop that arrives when the dragged card's id is no longer in the
\* card collection leaves the collection unchanged, emits no card-moved and
\* emits drag-end with success = true for the dragged card
C11_StaleCardAtDrop ==
  (/\ DropArrived
   /\ prevDrag.dragType = "card"
   /\ prevDrag.draggedId \notin IdsOf(prevCards)) =>
    /\ cards = prevCards
    /\ ~Emits(emitted, "card-moved")
    /\ \E k \in 1..Len(emitted) :
         emitted[k] = DragEndEvent("card", prevDrag.draggedId, TRUE)

\* C12: a drop of a dragged card on a column with acceptsCards = false
\* changes neither the collections nor the drag state and emits nothing; the
\* drag end that follows leaves the collections unchanged and emits exactly
\* one drag-end for the gesture, with success = false, and no update:cards,
\* card-moved or board-change
C12_RefusedDrop ==
  /\ (/\ lastCall.op = "handleDrop"
      /\ ~ColumnOf(lastCall.columnId).acceptsCards) =>
       /\ cards = prevCards
       /\ ColumnsUntouched
       /\ emitted = <<>>
       /\ dragState = prevDrag
  /\ (/\ lastCall.op = "handleDragEnd"
      /\ gesture.refused
      /\ prevDrag.isDragging
      /\ prevDrag.dragType = "card") =>
       /\ cards = prevCards
       /\ ColumnsUntouched
       /\ emitted = <<DragEndEvent("card", prevDrag.draggedId, FALSE)>>
       /\ ends = emitted

\* C12 witness: a card drag had a drop refused and was then ended by
\* handleDragEnd, with its single drag-end of success = false
C12_Witness ==
  /\ lastCall.op = "handleDragEnd"
  /\ gesture.refused
  /\ gesture.type = "card"
  /\ prevDrag.isDragging
  /\ prevDrag.draggedId = gesture.id
  /\ cards = prevCards
  /\ ends = <<DragEndEvent("card", gesture.id, FALSE)>>
  /\ emitted = ends

\* C13: handleDragEnd arriving in Dragging, with or without a recorded drop
\* candidate, leaves cards, columns and swimlanes unchanged and emits no
\* update:cards, card-moved or board-change
C13_CancelLeavesStore ==
  (lastCall.op = "handleDragEnd" /\ prevDrag.isDragging) =>
    /\ cards = prevCards
    /\ ColumnsUntouched
    /\ swimlanes = <<>>
    /\ NoStoreEvents

\* C13 witness: a card drag with a recorded candidate in another column than
\* the card's was cancelled, and the card is where it was
C13_Witness ==
  /\ lastCall.op = "handleDragEnd"
  /\ prevDrag.isDragging
  /\ prevDrag.dragType = "card"
  /\ prevDrag.dropColumnId # Null
  /\ prevDrag.dropColumnId # prevDrag.sourceColumnId
  /\ CardOf(cards, prevDrag.draggedId).columnId = prevDrag.sourceColumnId
  /\ cards = prevCards
  /\ emitted = <<DragEndEvent("card", prevDrag.draggedId, FALSE)>>

\* C14: after handleDrop of useKanbanDrag on any of its branches and after
\* handleDragEnd every field of the drag state is cleared, whatever candidate
\* was recorded; a hover never ends a drag
C14_IdleAfterTerminal ==
  /\ (\/ lastCall.op = "handleDrop" /\ ColumnOf(lastCall.columnId).acceptsCards
      \/ lastCall.op = "handleDragEnd") =>
       /\ ~dragState.isDragging
       /\ dragState.dragType = "null"
       /\ dragState.draggedId = Null
       /\ dragState.sourceColumnId = Null
       /\ dragState.sourceSwimlaneId = Null
       /\ dragState.dropColumnId = Null
       /\ dragState.dropSwimlaneId = Null
  /\ (lastCall.op = "handleDragOver" /\ prevDrag.isDragging) =>
       /\ dragState.isDragging
       /\ dragState.draggedId = prevDrag.draggedId

\* C14 witness: a drop took the early return for a column drag that had a
\* candidate recorded, and the state is Idle
C14_Witness ==
  /\ DropArrived
  /\ prevDrag.dragType = "column"
  /\ prevDrag.dropColumnId # Null
  /\ ~dragState.isDragging
  /\ dragState.dropColumnId = Null
  /\ dragState.draggedId = Null

\* C15: while dragging, a hover over a zone of an accepting column makes that
\* zone the recorded candidate and changes nothing else; a hover over a
\* column with acceptsCards = false records nothing and leaves the drag
\* state, Dragging with its subject, as it was
C15_HoverCandidate ==
  (lastCall.op = "handleDragOver" /\ prevDrag.isDragging) =>
    IF ColumnOf(lastCall.columnId).acceptsCards
    THEN dragState = [prevDrag EXCEPT !.dropColumnId = lastCall.columnId,
                                      !.dropSwimlaneId = normalizeId(lastCall.swimlaneId)]
    ELSE dragState = prevDrag /\ dragState.dropColumnId # lastCall.columnId

\* C16: a drop that arrives while no candidate is recorded (dropColumnId is
\* null) does not call moveCard: the cards are unchanged and neither
\* update:cards nor card-moved is emitted
C16_DropNeedsCandidate ==
  (DropArrived /\ prevDrag.dropColumnId = Null) =>
    /\ cards = prevCards
    /\ ~Emits(emitted, "update:cards")
    /\ ~Emits(emitted, "card-moved")

\* C17: a drop that arrives during a column drag commits the move through
\* moveColumn: column-moved is emitted and the dragged column stands at the
\* display position of the column it was dropped on
C17_ColumnDropCommits ==
  (DropArrived /\ prevDrag.dragType = "column") =>
    /\ Emits(emitted, "column-moved")
    /\ findIndex(sortedColumns, prevDrag.draggedId) =
         findIndex(SortByOrder(prevColumns), lastCall.columnId)

\* C18: moveColumn for a column of the collection returns exactly the ids of
\* the input, each once, every column's order being its position in the
\* result; for an id that is not in the collection it returns the input
C18_ColumnIdsAndOrders ==
  lastCall.op = "moveColumn" =>
    IF lastCall.id \in IdsOf(prevColumns)
    THEN /\ IdsOf(columns) = IdsOf(prevColumns)
         /\ Len(columns) = Len(prevColumns)
         /\ UniqueIds(columns)
         /\ \A k \in 1..Len(columns) : columns[k].order = k - 1
    ELSE columns = prevColumns

\* C18 witness: a column was moved to another index within an array that was
\* not in the sequence of its order values
C18_Witness ==
  /\ lastCall.op = "moveColumn"
  /\ lastCall.id \in IdsOf(prevColumns)
  /\ lastCall.move.toIndex # lastCall.move.fromIndex
  /\ \E k \in 1..Len(prevColumns) : prevColumns[k].order # k - 1
  /\ IdsOf(columns) = IdsOf(prevColumns)
  /\ \A k \in 1..Len(columns) : columns[k].order = k - 1

\* C19: for dense order values, whatever the sequence of the array,
\* moveColumn with 0 <= toIndex <= n puts the moved column at display
\* position min(toIndex, n-1), keeps the relative display order of the other
\* columns, and a move to the column's own display index returns every order
\* value as it was (display position = rank by order)
C19_ColumnDisplayPosition ==
  LET ev == lastCall.move
      n == Len(prevColumns)
      was(id) == CardOf(prevColumns, id).order
      is(id) == CardOf(columns, id).order
      others == IdsOf(prevColumns) \ {lastCall.id}
  IN  (/\ lastCall.op = "moveColumn"
       /\ lastCall.id \in IdsOf(prevColumns)
       /\ ev.toIndex \in 0..n) =>
        /\ is(lastCall.id) = Min(ev.toIndex, n - 1)
        /\ \A a, b \in others : was(a) < was(b) => is(a) < is(b)
        /\ ev.toIndex = was(lastCall.id) => \A id \in IdsOf(prevColumns) : is(id) = was(id)

\* C20: moveCard for an event whose card id is not in the collection returns
\* the collection as it is
C20_StaleMoveReturnsInput ==
  (lastCall.op = "moveCard" /\ lastCall.move.cardId \notin IdsOf(prevCards)) =>
    cards = prevCards

\* C20 witness: such a call on a board whose last card stands in another
\* group than the event's target
C20_Witness ==
  /\ lastCall.op = "moveCard"
  /\ lastCall.move.cardId \notin IdsOf(prevCards)
  /\ Len(prevCards) = NumCards
  /\ prevCards[NumCards].columnId # lastCall.move.toColumnId
  /\ cards = prevCards

\* C21: moveCard clamps toIndex to [0, size of the target group without the
\* moved card]: the card's order is 0 for every toIndex below 0 and the size
\* for every toIndex above the size
C21_ToIndexClamped ==
  LET ev == lastCall.move
      size == Cardinality(OthersIn(ev.toColumnId, ev.toSwimlaneId, ev.cardId))
  IN  lastCall.op = "moveCard" =>
        After(ev.cardId).order = Max(0, Min(ev.toIndex, size))

\* C22: after moveCard has returned, the card records of the collection it
\* was called on still have the columnId, swimlaneId and order they had
\* before the call
C22_InputNotMutated ==
  lastCall.op = "moveCard" =>
    inputAfterMoveCard(prevCards, lastCall.move) = prevCards

\* The last call was a drop of a dragged card that is in the collection,
\* arriving at handleDrop
CardDropArrived ==
  /\ DropArrived
  /\ prevDrag.dragType = "card"
  /\ prevDrag.draggedId \in IdsOf(prevCards)

\* C23: a committed drop that changes the board emits update:cards,
\* card-moved, board-change and drag-end, in this order; board-change carries
\* the updated cards of update:cards and the current columns; a card-moved is
\* always followed by a board-change of the same call
C23_EventOrder ==
  /\ (CommittingDrop /\ ~SamePlacement(cards, prevCards)) =>
       /\ Len(emitted) = 4
       /\ emitted[1].name = "update:cards"
       /\ emitted[2].name = "card-moved"
       /\ emitted[3].name = "board-change"
       /\ emitted[4].name = "drag-end"
       /\ emitted[1].cards = cards
       /\ emitted[3].cards = emitted[1].cards
       /\ emitted[3].columns = columns
  /\ \A k \in 1..Len(emitted) :
       emitted[k].name = "card-moved" =>
         \E j \in (k + 1)..Len(emitted) : emitted[j].name = "board-change"

\* C23 witness: a drop moved a card to another column and its four events
\* are there, board-change with the new collection
C23_Witness ==
  /\ CardDropArrived
  /\ After(prevDrag.draggedId).columnId # Before(prevDrag.draggedId).columnId
  /\ Len(emitted) = 4
  /\ emitted[2].name = "card-moved"
  /\ emitted[3].name = "board-change"
  /\ emitted[3].cards = cards
  /\ emitted[3].cards # prevCards
  /\ emitted[4].name = "drag-end"

\* C25: a drop of a card from another column onto a column whose card count
\* has reached or passed its wipLimit is committed: the card is in that column
\* and update:cards, card-moved, board-change and drag-end with success = true
\* are emitted
C25_WipLimitNeverBlocks ==
  LET column == ColumnOf(lastCall.columnId)
      count == Cardinality({k \in 1..Len(prevCards) : prevCards[k].columnId = column.id})
      id == prevDrag.draggedId
  IN  (/\ CardDropArrived
       /\ column.wipLimit # NoWipLimit
       /\ count >= column.wipLimit
       /\ Before(id).columnId # column.id) =>
        /\ After(id).columnId = column.id
        /\ Emits(emitted, "update:cards")
        /\ Emits(emitted, "card-moved")
        /\ Emits(emitted, "board-change")
        /\ \E k \in 1..Len(emitted) : emitted[k] = DragEndEvent("card", id, TRUE)

\* C25 witness: a card was dropped on a column that already held wipLimit
\* cards, and is now one of its cards
C25_Witness ==
  LET column == ColumnOf(lastCall.columnId)
  IN  /\ CardDropArrived
      /\ column.wipLimit = FixtureWipLimit
      /\ Cardinality({k \in 1..Len(prevCards) : prevCards[k].columnId = column.id})
           = column.wipLimit
      /\ Before(prevDrag.draggedId).columnId # column.id
      /\ After(prevDrag.draggedId).columnId = column.id
      /\ Cardinality({k \in 1..Len(cards) : cards[k].columnId = column.id})
           > column.wipLimit
      /\ Emits(emitted, "card-moved")

\* C28: with enableCardReordering = false a drop of a card on its own group
\* leaves every card's group and order as it was and emits neither card-moved
\* nor board-change; a drop on another group is committed
C28_ReorderingGate ==
  LET id == prevDrag.draggedId
      ownGroup == /\ lastCall.columnId = Before(id).columnId
                  /\ \/ lastCall.swimlaneId = Undefined
                     \/ lastCall.swimlaneId = Before(id).swimlaneId
  IN  (CardDropArrived /\ options.enableCardReordering = "false") =>
        IF ownGroup
        THEN /\ SamePlacement(cards, prevCards)
             /\ ~Emits(emitted, "card-moved")
             /\ ~Emits(emitted, "board-change")
        ELSE /\ After(id).columnId = lastCall.columnId
             /\ Emits(emitted, "card-moved")

\* C29: with enableSwimlanes false or left out, starting from columns that
\* are each densely ordered, after any sequence of drops the orders of the
\* cards of every column are 0..n-1 without duplicates
C29_ColumnDense == IsColumnDense(cards)

\* C30: with enableColumnDrag not set to true, startColumnDrag in Idle is
\* rejected and the state stays Idle; with enableColumnDrag = true it is
\* accepted for a draggable column
C30_ColumnDragDefault ==
  (lastCall.op = "startColumnDrag" /\ ~prevDrag.isDragging) =>
    IF options.enableColumnDrag = "true" /\ ColumnOf(lastCall.id).draggable
    THEN /\ dragState.isDragging
         /\ dragState.dragType = "column"
         /\ dragState.draggedId = lastCall.id
    ELSE dragState = prevDrag /\ emitted = <<>>

\* C24: isColumnOverLimit(columnId) is true exactly when the column exists,
\* has a wipLimit (any number >= 0) and the number of cards with that
\* columnId, over all swimlanes, is greater than the wipLimit
C24_OverLimit ==
  LET columnId == lastCall.columnId
      exists == columnId \in IdsOf(columns)
      count == Cardinality({k \in 1..Len(cards) : cards[k].columnId = columnId})
  IN  lastCall.op = "isColumnOverLimit" =>
        view = (/\ exists
                /\ CardOf(columns, columnId).wipLimit # NoWipLimit
                /\ count > CardOf(columns, columnId).wipLimit)

\* The cards getCardsForColumn is to return for the last call
Matching ==
  {k \in 1..Len(cards) :
     /\ cards[k].columnId = lastCall.columnId
     /\ lastCall.swimlaneId # Undefined => cards[k].swimlaneId = lastCall.swimlaneId}

\* C26: getCardsForColumn returns exactly the cards of the column (and of the
\* swimlane, when one is given), ascending by order, and leaves the stored
\* collection and its sequence as they were
C26_CardsForColumn ==
  lastCall.op = "getCardsForColumn" =>
    /\ {view[i] : i \in 1..Len(view)} = {cards[k] : k \in Matching}
    /\ Len(view) = Cardinality(Matching)
    /\ \A i, j \in 1..Len(view) : i < j => view[i].order <= view[j].order
    /\ cards = prevCards

\* C26 witness: a call with a swimlaneId that returned two cards which stand
\* in the other sequence in the collection, another card being left out
C26_Witness ==
  /\ lastCall.op = "getCardsForColumn"
  /\ lastCall.swimlaneId # Undefined
  /\ Len(view) = 2
  /\ Len(cards) = 3
  /\ findIndex(cards, view[1].id) > findIndex(cards, view[2].id)
  /\ view[1].order < view[2].order
  /\ cards = prevCards

\* First position of a swimlaneId in the card collection
FirstWith(swimlaneId) ==
  CHOOSE k \in 1..Len(cards) :
    /\ cards[k].swimlaneId = swimlaneId
    /\ \A j \in 1..(k - 1) : cards[j].swimlaneId # swimlaneId

\* C27: without explicit swimlanes effectiveSwimlanes lists the distinct
\* defined swimlaneId values of the cards in order of first appearance, with
\* order = position; with explicit swimlanes it is that list ascending by
\* order
C27_EffectiveSwimlanes ==
  lastCall.op = "effectiveSwimlanes" =>
    IF swimlanes = <<>>
    THEN /\ {view[i].id : i \in 1..Len(view)} =
              {cards[k].swimlaneId : k \in 1..Len(cards)} \ {Undefined}
         /\ \A i, j \in 1..Len(view) :
              i < j => FirstWith(view[i].id) < FirstWith(view[j].id)
         /\ \A i \in 1..Len(view) : view[i].order = i - 1
    ELSE /\ Len(view) = Len(swimlanes)
         /\ {view[i] : i \in 1..Len(view)} = {swimlanes[k] : k \in 1..Len(swimlanes)}
         /\ \A i, j \in 1..Len(view) : i < j => view[i].order <= view[j].order

\* C27 witness: no explicit swimlanes, the second swimlane id appearing
\* before the first one in the cards: the derived list is (2, 1) with orders
\* 0 and 1
C27_Witness ==
  /\ lastCall.op = "effectiveSwimlanes"
  /\ swimlanes = <<>>
  /\ Len(view) = 2
  /\ view[1].id = 2 /\ view[1].order = 0
  /\ view[2].id = 1 /\ view[2].order = 1

\* C31: moveCard leaves every card that is neither the moved card nor a member
\* of the source or the target group with its columnId, swimlaneId and order,
\* and on the cards it touches it changes only columnId and swimlaneId (moved
\* card) and order: ids and the other fields stay, and the members of the two
\* groups other than the moved card keep their columnId and swimlaneId.
C31_MoveFrame ==
  (lastCall.op = "moveCard" /\ lastCall.id \in IdsOf(prevCards)) =>
    /\ IdsOf(cards) = IdsOf(prevCards)
    /\ Len(cards) = Len(prevCards)
    /\ \A k \in 1..Len(prevCards) :
         LET c == prevCards[k]
             a == After(c.id)
             ev == lastCall.move
             touched == \/ c.id = lastCall.id
                        \/ SameGroup(c, Before(lastCall.id))
                        \/ /\ c.columnId = ev.toColumnId
                           /\ normalizeId(c.swimlaneId) = normalizeId(ev.toSwimlaneId)
         IN  /\ a.draggable = c.draggable
             /\ c.id # lastCall.id => a.columnId = c.columnId /\ a.swimlaneId = c.swimlaneId
             /\ ~touched => a.order = c.order

\* A move to another group that holds a card (pushed down by the insertion),
\* with a third card in neither group
C31_Witness ==
  /\ lastCall.op = "moveCard"
  /\ lastCall.id \in IdsOf(prevCards)
  /\ ~isSameLocation(lastCall.move)
  /\ \E i, j \in 1..Len(prevCards) :
       /\ prevCards[i].id # lastCall.id /\ prevCards[j].id # lastCall.id
       /\ prevCards[i].columnId = lastCall.move.toColumnId
       /\ normalizeId(prevCards[i].swimlaneId) = normalizeId(lastCall.move.toSwimlaneId)
       /\ After(prevCards[i].id).order # prevCards[i].order
       /\ ~SameGroup(prevCards[j], Before(lastCall.id))
       /\ ~SameGroup(prevCards[j], prevCards[i])
       /\ After(prevCards[j].id) = prevCards[j]

\* C32: for every emitted card-moved event, fromColumnId, fromSwimlaneId and
\* fromIndex are the card's group and order before the move, and toColumnId,
\* toSwimlaneId and toIndex are the card's group and order in the updated
\* collection emitted with it (update:cards).
C32_CardMovedPayload ==
  \A k \in 1..Len(emitted) :
    emitted[k].name = "card-moved" =>
      LET ev == emitted[k].move
          updated == emitted[CHOOSE j \in 1..Len(emitted) : emitted[j].name = "update:cards"].cards
          b == Before(ev.cardId)
          a == CardOf(updated, ev.cardId)
      IN  /\ ev.fromColumnId = b.columnId
          /\ normalizeId(ev.fromSwimlaneId) = normalizeId(b.swimlaneId)
          /\ ev.fromIndex = b.order
          /\ ev.toColumnId = a.columnId
          /\ normalizeId(ev.toSwimlaneId) = normalizeId(a.swimlaneId)
          /\ ev.toIndex = a.order

\* C33: between one drag-start and the next at most one drag-end is emitted;
\* the source element's drag-end notification after a drop that committed
\* (drag-end with success = true) emits no second drag-end, so a committed
\* gesture is never reported with success = false.
C33_SingleDragEnd ==
  /\ Len(ends) <= 1
  /\ (\E k \in 1..Len(ends) : ends[k].success) => \A k \in 1..Len(ends) : ends[k].success
  /\ (lastCall.op = "handleDragEnd" /\ ~prevDrag.isDragging) => emitted = <<>>

\* The drag-end notification arrived after the drop of a card drag committed
C33_Witness ==
  /\ lastCall.op = "handleDragEnd"
  /\ gesture.type = "card"
  /\ Len(ends) = 1
  /\ ends[1].success
  /\ ends[1].id = gesture.id
  /\ emitted = <<>>
  /\ ~dragState.isDragging

\* C34: in every reachable drag state isDragging is true exactly when dragType
\* and draggedId are both non-null; in Idle all source and drop fields are
\* null; for dragType 'card' sourceColumnId is the columnId the dragged card
\* had at drag start; for dragType 'column' sourceColumnId and
\* sourceSwimlaneId are null.
C34_DragStateShape ==
  /\ dragState.isDragging <=> (dragState.dragType # "null" /\ dragState.draggedId # Null)
  /\ ~dragState.isDragging =>
       /\ dragState.sourceColumnId = Null
       /\ dragState.sourceSwimlaneId = Null
       /\ dragState.dropColumnId = Null
       /\ dragState.dropSwimlaneId = Null
  /\ dragState.dragType = "card" =>
       /\ gesture.type = "card"
       /\ gesture.id = dragState.draggedId
       /\ dragState.sourceColumnId = gesture.columnId
  /\ dragState.dragType = "column" =>
       /\ dragState.sourceColumnId = Null
       /\ dragState.sourceSwimlaneId = Null

\* A card drag with a zone of another column recorded by a hover
C34_Witness ==
  /\ lastCall.op = "handleDragOver"
  /\ dragState.isDragging
  /\ dragState.dragType = "card"
  /\ dragState.sourceColumnId \in ColumnIds
  /\ dragState.dropColumnId \in ColumnIds
  /\ dragState.dropColumnId # dragState.sourceColumnId

\* The swimlanes derived from a card collection (effectiveSwimlanes without a
\* swimlanes prop)
DerivedSwimlanesOf(cs) ==
  LET ids == DistinctSwimlaneIds(cs)
  IN  [k \in 1..Len(ids) |-> [id |-> ids[k], order |-> k - 1]]

\* The last call was a drop that moved a card and changed no card's swimlaneId
MovedWithinSwimlane ==
  /\ lastCall.op = "handleDrop"
  /\ Emits(emitted, "card-moved")
  /\ IdsOf(cards) = IdsOf(prevCards)
  /\ \A id \in IdsOf(prevCards) : After(id).swimlaneId = Before(id).swimlaneId

\* C35: with no explicit swimlanes, a card move that changes no card's
\* swimlaneId (a drop on another column within the same swimlane) leaves the
\* sequence of derived swimlanes (effectiveSwimlanes) as it was.
C35_DerivedSwimlanesStable ==
  (swimlanes = <<>> /\ MovedWithinSwimlane) =>
    effectiveSwimlanes = DerivedSwimlanesOf(prevCards)

\* C36: with enableSwimlanes = false (or left out), dragging a card to a
\* column changes only its columnId and order: the card's swimlaneId after
\* the move is its swimlaneId before the move.
C36_SwimlaneIdKept ==
  (/\ ~boardEnableSwimlanes
   /\ lastCall.op = "handleDrop"
   /\ Emits(emitted, "card-moved")) =>
    \A k \in 1..Len(emitted) :
      emitted[k].name = "card-moved" =>
        After(emitted[k].id).swimlaneId = Before(emitted[k].id).swimlaneId

\* C37: for every column and every board state, with swimlanes enabled or
\* not, the over-limit flag the column component computes from the cards it
\* was given (KanbanColumn isOverLimit) equals the store's isColumnOverLimit
\* for that column.
C37_ColumnFlagMatchesStore ==
  lastCall.op = "KanbanColumn.isOverLimit" =>
    view = isColumnOverLimit(columns, cards, lastCall.columnId)

\* The cards of the collection before the last call that are in the group of
\* the zone of the last call
TargetGroupBefore ==
  {c \in {prevCards[k] : k \in 1..Len(prevCards)} :
     /\ c.columnId = lastCall.columnId
     /\ normalizeId(c.swimlaneId) = normalizeId(lastCall.swimlaneId)}

\* C38: a drop on a group other than the card's source group inserts the card
\* after all cards already in that group: toIndex is the size the target
\* group has at the drop, the card's order is that size, and the cards already
\* in the target group keep their order values.
C38_DropAppends ==
  \A k \in 1..Len(emitted) :
    (/\ lastCall.op = "handleDrop"
     /\ emitted[k].name = "card-moved"
     /\ Before(emitted[k].id) \notin TargetGroupBefore) =>
      /\ emitted[k].move.toIndex = Cardinality(TargetGroupBefore)
      /\ After(emitted[k].id).order = Cardinality(TargetGroupBefore)
      /\ \A c \in TargetGroupBefore : After(c.id).order = c.order

====
